---- MODULE Spec2Model ----
(***************************************************************************)
(* The multi-server tool gateway, MultiMCPClient                           *)
(* (src/integrations/mcp/mcp_client.py), as a state machine.               *)
(*                                                                         *)
(* The gateway runs on one asyncio event loop.  A coroutine runs without   *)
(* interruption from one await to the next, so every action below is one   *)
(* such stretch of code: from the entry of a call, or from the point where *)
(* an awaited provider operation answers, up to the next await or to the   *)
(* return.  Several calls may be suspended at the same time; which one is  *)
(* resumed next is the scheduler's choice.                                 *)
(***************************************************************************)
EXTENDS Integers, Sequences, FiniteSets, TLC

\* ------------------------------------------------------------- bounds
\* Calls issued on the gateway in one behaviour (each task is one call).
MaxTasks == 3
\* Calls that are suspended at an await at the same time.
MaxInFlight == 2
\* The parameters handed to execute_mcp_tool are 1..MaxArg.
MaxArg == 1
\* Nesting depth of the schemas _clean_json_schema is exercised on.
MaxDepth == 2
\* Length of the content lists _process_mcp_result is exercised on.
MaxParts == 2
\* Provider entries in the text of a configuration file.
MaxEntries == 2

Tasks == 1..MaxTasks

\* ---------------------------------------------------- program constants
\* asyncio.wait_for(session.disconnect(), timeout=2.0)
SessionTimeout == 2
\* asyncio.wait_for(self.mcp_client.close_all_sessions(), timeout=3.0)
CloseTimeout == 3
\* asyncio.wait_for(cleanup_mcp_client(), timeout=3.0) in AudioLoop.run
CallerCleanupTimeout == 3

\* self.mcp_client = None
None == 0

\* ------------------------------------------------------------- strings
\* A string is the sequence of its characters, so that concatenation is
\* what the f-string does.
A == <<"a">>
AB == <<"a", "_", "b">>
C == <<"c">>
BC == <<"b", "_", "c">>

\* The providers mcp_servers.json may name, in the order it names them.
AllProviders == <<A, AB>>
ProviderNames == {AllProviders[i] : i \in DOMAIN AllProviders}

\* connector.tools of a connected provider: the tools it reports.
connector_tools(server_name) == IF server_name = A THEN <<BC>> ELSE <<C, BC>>

\* The key sequences self.config may have (a dict: its keys are distinct
\* and keep their order): every selection of the providers.
RECURSIVE SubSeqs(_)
SubSeqs(s) ==
    IF s = <<>> THEN {<<>>}
    ELSE LET rest == SubSeqs(Tail(s))
         IN  rest \cup {<<Head(s)>> \o r : r \in rest}
Configs == SubSeqs(AllProviders)

\* ------------------------------------------------------- JSON schemas
\* A JSON value is a scalar, a dict or a list.
Scalar(v) == [k |-> "scalar", v |-> v]
Dict(f) == [k |-> "dict", f |-> f]
List(s) == [k |-> "list", s |-> s]

unsupported_properties ==
    {"$schema", "additionalProperties", "exclusiveMinimum", "exclusiveMaximum",
     "multipleOf", "patternProperties", "dependencies", "definitions",
     "allOf", "anyOf", "oneOf", "not", "if", "then", "else", ""}

\* _clean_json_schema giving up after the first unsupported key it meets:
\* one keyword is removed per call, and nothing below the top level.
clean_json_schema_OneKeyword(schema) ==
    IF schema.k # "dict" THEN schema
    ELSE LET found == {x \in DOMAIN schema.f : x \in unsupported_properties}
             dropped == IF found = {} THEN {} ELSE {CHOOSE x \in found : TRUE}
         IN  Dict([key \in (DOMAIN schema.f) \ dropped |-> schema.f[key]])

RECURSIVE clean_json_schema(_)
clean_json_schema(schema) ==
    IF schema.k # "dict" THEN schema
    ELSE Dict([key \in {x \in DOMAIN schema.f : x \notin unsupported_properties} |->
            LET value == schema.f[key] IN
            IF value.k = "dict" THEN clean_json_schema(value)
            ELSE IF value.k = "list"
                 THEN List([i \in DOMAIN value.s |->
                        IF value.s[i].k = "dict"
                        THEN clean_json_schema(value.s[i])
                        ELSE value.s[i]])
                 ELSE value])

\* tool.inputSchema of a reported tool: an object schema that carries a
\* keyword the consumer does not accept.
inputSchema(tool) ==
    Dict(("type" :> Scalar("object")) @@ ("$schema" :> Scalar("draft-07")))

\* ----------------------------------------------------------- namespacing
\* tool_name = f"mcp_{server_name}_{tool.name}"
ToolName(server_name, name) ==
    <<"m", "c", "p", "_">> \o server_name \o <<"_">> \o name

\* ------------------------------------------------- provider results
\* An attribute of a provider object: hasattr(obj, name), and its value.
\* A string-valued attribute also says whether the value is a str at all
\* (str.join refuses anything else); val is then its str() rendering.
StrAttr(v) == [has |-> TRUE, str |-> TRUE, val |-> v]
NonStrAttr(v) == [has |-> TRUE, str |-> FALSE, val |-> v]
NoStrAttr == [has |-> FALSE, str |-> FALSE, val |-> <<>>]
BoolAttr(b) == [has |-> TRUE, val |-> b]
NoBoolAttr == [has |-> FALSE, val |-> FALSE]

\* One item of result.content.  type "" stands for an item without a type
\* attribute; payload is the item's data, resource, code or output; repr is
\* str(item).
Part(type, text, payload, haspayload, language, repr) ==
    [type |-> type, text |-> text, payload |-> payload,
     haspayload |-> haspayload, language |-> language, repr |-> repr]

TextPart(t) == Part("text", StrAttr(t), <<>>, FALSE, NoStrAttr, <<"TextContent">>)
ExecResultPart(out) ==
    Part("code_execution_result", NoStrAttr, out, TRUE, NoStrAttr, <<"ExecResult">>)

\* The object call_tool returns: result.content (a list, something that is
\* not iterable, or no such attribute), result.text and result.isError.
Raw(hascontent, iterable, parts, text, isError, repr) ==
    [hascontent |-> hascontent, iterable |-> iterable, parts |-> parts,
     text |-> text, isError |-> isError, repr |-> repr]

\* What execute_mcp_tool hands back: the envelope {'content', 'isError'},
\* or, from the except branch of _process_mcp_result, the raw object.
Envelope(content, isStr, isError) ==
    [kind |-> "envelope", content |-> content, isStr |-> isStr,
     isError |-> isError, raw |-> <<>>]
RawReturn(result) ==
    [kind |-> "raw", content |-> <<>>, isStr |-> FALSE, isError |-> FALSE,
     raw |-> <<result>>]
NoResult ==
    [kind |-> "none", content |-> <<>>, isStr |-> FALSE, isError |-> FALSE,
     raw |-> <<>>]

\* ProcessedItems reading the output of a code execution result from the
\* item's text attribute, which such an item does not have.
ProcessedItems_OutputFromText(content_part) ==
    CASE content_part.type = "text" ->
            IF content_part.text.has
            THEN <<[type |-> "text", isStr |-> content_part.text.str,
                    text |-> content_part.text.val]>>
            ELSE <<>>
      [] content_part.type = "image" ->
            <<[type |-> "image", isStr |-> TRUE,
               text |-> <<"{'type': 'image', 'data': ">>
                        \o (IF content_part.haspayload THEN content_part.payload
                            ELSE <<"None">>) \o <<"}">>]>>
      [] content_part.type = "resource" ->
            <<[type |-> "resource", isStr |-> TRUE,
               text |-> <<"{'type': 'resource', 'resource': ">>
                        \o (IF content_part.haspayload THEN content_part.payload
                            ELSE <<"None">>) \o <<"}">>]>>
      [] content_part.type = "executable_code" ->
            <<[type |-> "text", isStr |-> TRUE,
               text |-> <<"Code (">>
                        \o (IF content_part.language.has THEN content_part.language.val
                            ELSE <<"text">>)
                        \o <<"):", "\n">>
                        \o (IF content_part.haspayload THEN content_part.payload
                            ELSE <<>>)]>>
      [] content_part.type = "code_execution_result" ->
            <<[type |-> "text", isStr |-> TRUE,
               text |-> <<"Execution Result:", "\n">>
                        \o (IF content_part.text.has THEN content_part.text.val
                            ELSE <<>>)]>>
      [] OTHER ->
            <<[type |-> "text", isStr |-> TRUE, text |-> content_part.repr]>>

\* One entry of processed_content for a content item, or none: a text item
\* without a text attribute appends nothing.
ProcessedItems(content_part) ==
    CASE content_part.type = "text" ->
            IF content_part.text.has
            THEN <<[type |-> "text", isStr |-> content_part.text.str,
                    text |-> content_part.text.val]>>
            ELSE <<>>
      [] content_part.type = "image" ->
            <<[type |-> "image", isStr |-> TRUE,
               text |-> <<"{'type': 'image', 'data': ">>
                        \o (IF content_part.haspayload THEN content_part.payload
                            ELSE <<"None">>) \o <<"}">>]>>
      [] content_part.type = "resource" ->
            <<[type |-> "resource", isStr |-> TRUE,
               text |-> <<"{'type': 'resource', 'resource': ">>
                        \o (IF content_part.haspayload THEN content_part.payload
                            ELSE <<"None">>) \o <<"}">>]>>
      [] content_part.type = "executable_code" ->
            <<[type |-> "text", isStr |-> TRUE,
               text |-> <<"Code (">>
                        \o (IF content_part.language.has THEN content_part.language.val
                            ELSE <<"text">>)
                        \o <<"):", "\n">>
                        \o (IF content_part.haspayload THEN content_part.payload
                            ELSE <<>>)]>>
      [] content_part.type = "code_execution_result" ->
            <<[type |-> "text", isStr |-> TRUE,
               text |-> <<"Execution Result:", "\n">>
                        \o (IF content_part.haspayload THEN content_part.payload
                            ELSE <<>>)]>>
      [] OTHER ->
            <<[type |-> "text", isStr |-> TRUE, text |-> content_part.repr]>>

RECURSIVE ProcessedContent(_)
ProcessedContent(parts) ==
    IF parts = <<>> THEN <<>>
    ELSE ProcessedItems(Head(parts)) \o ProcessedContent(Tail(parts))

\* '\n'.join(combined_text)
RECURSIVE Join(_)
Join(texts) ==
    IF texts = <<>> THEN <<>>
    ELSE IF Len(texts) = 1 THEN Head(texts)
    ELSE Head(texts) \o <<"\n">> \o Join(Tail(texts))

\* getattr(result, 'isError', False)
GetIsError(result) == IF result.isError.has THEN result.isError.val ELSE FALSE

process_mcp_result(result) ==
    IF result.hascontent /\ ~result.iterable
    THEN \* a truthy content that cannot be iterated: TypeError, except branch
         RawReturn(result)
    ELSE LET processed_content ==
                 IF result.hascontent THEN ProcessedContent(result.parts) ELSE <<>>
         IN  IF processed_content # <<>>
             THEN IF \E i \in DOMAIN processed_content : ~processed_content[i].isStr
                  THEN \* str.join on a value that is no str: TypeError
                       RawReturn(result)
                  ELSE Envelope(Join([i \in DOMAIN processed_content |->
                                        processed_content[i].text]),
                                TRUE, GetIsError(result))
             ELSE IF result.text.has
                  THEN Envelope(result.text.val, result.text.str, GetIsError(result))
                  ELSE Envelope(result.repr, TRUE, FALSE)

\* The results a provider call answers with in the gateway's behaviours.
CallResults ==
    {Raw(TRUE, TRUE, <<TextPart(<<"ok">>)>>, NoStrAttr, BoolAttr(TRUE), <<"CallToolResult">>),
     Raw(TRUE, TRUE, <<ExecResultPart(<<"42">>)>>, NoStrAttr, BoolAttr(FALSE),
         <<"CallToolResult">>)}

\* ------------------------------------------------------------- state
VARIABLES
    config,             \* self.config: the configured provider names, in order
    mcp_client,         \* self.mcp_client: None, or the MCPClient of a pass
    sessions,           \* self.sessions: the sessions, in insertion order
    initialized,        \* self._initialized
    tool_declarations,  \* self._tool_declarations
    tool_map,           \* self._tool_map
    stderr,             \* sys.stderr: 0 the stream installed at start, or the
                        \* WarningFilter of a task
    task,               \* the calls: each one's frame (locals, position, outcome)
    live,               \* the provider sessions (child processes) now open
    calls,              \* the connector.call_tool invocations made so far
    subject,            \* the argument of a helper method that is exercised
                        \* on its own (a schema, a provider result)
    image               \* what the helper returned for it, call after call

vars == <<config, mcp_client, sessions, initialized, tool_declarations,
          tool_map, stderr, task, live, calls, subject, image>>

gateway == <<mcp_client, sessions, initialized, tool_declarations, tool_map>>

\* An MCPClient is named by the task whose pass created it; a session by the
\* client it was created through, its provider and the task that awaited it.
Session(client, server_name, by) ==
    [client |-> client, server |-> server_name, by |-> by]

\* The frame of a call that has not been issued.
IdleTask ==
    [op |-> "none", pc |-> "idle",
     tool_name |-> <<>>, parameters |-> 0,
     created |-> FALSE,            \* this call ran MCPClient.from_dict
     idx |-> 0,                    \* position of the loop that is suspended;
                                   \* of a cleanup, the sessions it visited
     successful_sessions |-> <<>>,
     pending |-> None,             \* the client the awaited operation is on
     snapshot |-> <<>>,            \* list(self.sessions.items())
     failed |-> FALSE,             \* a cleanup step timed out or raised
     elapsed |-> 0,                \* seconds spent in cleanup's waits
     original_stderr |-> 0,
     outcome |-> "none", result |-> NoResult]

Init ==
    /\ config \in Configs
    /\ mcp_client = None
    /\ sessions = <<>>
    /\ initialized = FALSE
    /\ tool_declarations = <<>>
    /\ tool_map = <<>>
    /\ stderr = 0
    /\ task = [t \in Tasks |-> IdleTask]
    /\ live = {}
    /\ calls = {}
    /\ subject = <<>>
    /\ image = <<>>

get_tool_declarations == tool_declarations

InFlight == {u \in Tasks : task[u].pc \notin {"idle", "done"}}

\* Calls are numbered in the order they are issued.
CanStart(t) ==
    /\ task[t].pc = "idle"
    /\ Cardinality(InFlight) < MaxInFlight
    /\ \A u \in Tasks : u < t => task[u].pc # "idle"

\* The frame of a call that has ended: its locals are gone; what stays is
\* what the caller saw of it (how it ended, what it was asked) and, of a
\* cleanup, what it logged.
Finished(frame, outcome) ==
    [IdleTask EXCEPT !.op = frame.op, !.pc = "done", !.outcome = outcome,
                     !.tool_name = frame.tool_name, !.created = frame.created,
                     !.failed = frame.failed, !.elapsed = frame.elapsed,
                     !.idx = IF frame.op = "cleanup" THEN frame.idx ELSE 0]

\* ---------------------------------------------------- catalog building
\* The (server_name, tool.name) pairs in the order the two loops of
\* initialize visit them.
RECURSIVE PairsOf(_)
PairsOf(ss) ==
    IF ss = <<>> THEN <<>>
    ELSE [i \in DOMAIN connector_tools(Head(ss).server) |->
            <<Head(ss).server, connector_tools(Head(ss).server)[i]>>]
         \o PairsOf(Tail(ss))

\* f"Tool from {server_name} server: {tool.description}"; a tool's
\* description is written as its name.
Description(server_name, tool) ==
    <<"Tool from ">> \o server_name \o <<" server: ">> \o tool

tool_decl(server_name, tool) ==
    [name |-> ToolName(server_name, tool),
     description |-> Description(server_name, tool),
     parameters |-> clean_json_schema(inputSchema(tool))]

Declarations(pairs) == [i \in DOMAIN pairs |-> tool_decl(pairs[i][1], pairs[i][2])]

\* self._tool_map[tool_name] = (server_name, tool.name), for each pair in
\* turn: a later pair with the same tool_name replaces the earlier one.
MapAfter(map, pairs) ==
    LET names == {ToolName(pairs[i][1], pairs[i][2]) : i \in DOMAIN pairs}
        last(n) == CHOOSE i \in DOMAIN pairs :
                      /\ ToolName(pairs[i][1], pairs[i][2]) = n
                      /\ \A j \in DOMAIN pairs :
                            j > i => ToolName(pairs[j][1], pairs[j][2]) # n
    IN  [n \in (DOMAIN map) \cup names |->
            IF n \in names THEN pairs[last(n)] ELSE map[n]]

\* ------------------------------------------------------ execute_mcp_tool
\* self._tool_map.get(tool_name, (None, None)), then the two checks.
Known(map, tool_name) ==
    /\ tool_name \in DOMAIN map
    /\ map[tool_name][1] # <<>>
    /\ map[tool_name][2] # <<>>

SessionOf(sess, server_name) ==
    sess[CHOOSE i \in DOMAIN sess : sess[i].server = server_name]

\* The call_tool invocation of a call: on which session, which tool, with
\* which parameters; and how the provider has answered it: not yet
\* ("pending"), with a result ("result"), or by raising ("raised").
CallOf(t, session, original_tool_name, parameters) ==
    [by |-> t, session |-> session, tool |-> original_tool_name,
     parameters |-> parameters, answer |-> "pending"]

\* The invocations so far, with the one call t awaits answered.
Answered(t, how) ==
    {IF c.by = t THEN [c EXCEPT !.answer = how] ELSE c : c \in calls}

\* Resolve without the check of line 248: a name the routing table does
\* not hold is passed on, as it is, to the first session.
Resolve_NoUnknownCheck(t, frame, map, sess) ==
    IF ~Known(map, frame.tool_name) /\ sess = <<>>
    THEN /\ task' = [task EXCEPT ![t] = Finished(frame, "unknown_tool")]
         /\ UNCHANGED <<stderr, calls>>
    ELSE IF Known(map, frame.tool_name)
            /\ ~\E i \in DOMAIN sess : sess[i].server = map[frame.tool_name][1]
    THEN /\ task' = [task EXCEPT ![t] = Finished(frame, "provider_unavailable")]
         /\ UNCHANGED <<stderr, calls>>
    ELSE /\ task' = [task EXCEPT ![t] =
                        [frame EXCEPT !.pc = "call_tool",
                                      !.original_stderr = stderr]]
         /\ stderr' = t
         /\ calls' = calls \cup
               {IF Known(map, frame.tool_name)
                THEN CallOf(t, SessionOf(sess, map[frame.tool_name][1]),
                            map[frame.tool_name][2], frame.parameters)
                ELSE CallOf(t, sess[1], frame.tool_name, frame.parameters)}

\* Lines 247-298: from the lookup to the await of call_tool, with the
\* routing table and the session map as they are at that point.
Resolve(t, frame, map, sess) ==
    IF ~Known(map, frame.tool_name)
    THEN /\ task' = [task EXCEPT ![t] = Finished(frame, "unknown_tool")]
         /\ UNCHANGED <<stderr, calls>>
    ELSE IF ~\E i \in DOMAIN sess : sess[i].server = map[frame.tool_name][1]
    THEN /\ task' = [task EXCEPT ![t] = Finished(frame, "provider_unavailable")]
         /\ UNCHANGED <<stderr, calls>>
    ELSE /\ task' = [task EXCEPT ![t] =
                        [frame EXCEPT !.pc = "call_tool",
                                      !.original_stderr = stderr]]
         /\ stderr' = t
         /\ calls' = calls \cup
               {CallOf(t, SessionOf(sess, map[frame.tool_name][1]),
                       map[frame.tool_name][2], frame.parameters)}

\* ------------------------------------------------------------ initialize
\* Lines 79-115, and the return to the caller: initialize() itself, or
\* execute_mcp_tool, which goes on to the lookup without suspending.
AfterLoop(t, frame, successful_sessions) ==
    LET pairs == PairsOf(successful_sessions)
        map == IF successful_sessions = <<>> THEN tool_map
               ELSE MapAfter(tool_map, pairs)
    IN  /\ sessions' = successful_sessions
        /\ tool_declarations' =
              IF successful_sessions = <<>> THEN tool_declarations
              ELSE tool_declarations \o Declarations(pairs)
        /\ tool_map' = map
        /\ initialized' = (Len(successful_sessions) > 0)
        /\ IF frame.op = "initialize"
           THEN /\ task' = [task EXCEPT ![t] = Finished(frame, "returned")]
                /\ UNCHANGED <<stderr, calls>>
           ELSE Resolve(t, frame, map, successful_sessions)

\* The loop of lines 68-77 from its i-th provider on, with self.mcp_client
\* as it is now.  With no client every remaining create_session raises at
\* once (AttributeError on None) and is skipped; otherwise the call
\* suspends on the i-th provider's handshake.
ConnectFrom(t, frame, i, successful_sessions, client) ==
    IF i > Len(config) \/ client = None
    THEN AfterLoop(t, frame, successful_sessions)
    ELSE /\ task' = [task EXCEPT ![t] =
                        [frame EXCEPT !.pc = "create_session", !.idx = i,
                                      !.successful_sessions = successful_sessions,
                                      !.pending = client]]
         /\ UNCHANGED <<sessions, initialized, tool_declarations, tool_map,
                        stderr, calls>>

\* Pass without the check of line 44: a ready gateway runs the pass again.
Pass_NoReadyCheck(t, frame) ==
    IF config = <<>>
    THEN /\ UNCHANGED <<mcp_client, sessions, initialized, tool_declarations,
                        tool_map>>
         /\ IF frame.op = "initialize"
            THEN /\ task' = [task EXCEPT ![t] = Finished(frame, "returned")]
                 /\ UNCHANGED <<stderr, calls>>
            ELSE Resolve(t, frame, tool_map, sessions)
    ELSE /\ mcp_client' = t
         /\ ConnectFrom(t, [frame EXCEPT !.created = TRUE], 1, <<>>, t)

\* Lines 44-71: initialize() from its entry.
Pass(t, frame) ==
    IF initialized \/ config = <<>>
    THEN /\ UNCHANGED <<mcp_client, sessions, initialized, tool_declarations,
                        tool_map>>
         /\ IF frame.op = "initialize"
            THEN /\ task' = [task EXCEPT ![t] = Finished(frame, "returned")]
                 /\ UNCHANGED <<stderr, calls>>
            ELSE Resolve(t, frame, tool_map, sessions)
    ELSE /\ mcp_client' = t
         /\ ConnectFrom(t, [frame EXCEPT !.created = TRUE], 1, <<>>, t)

\* A call of initialize() is issued.
InitializeStart(t) ==
    /\ CanStart(t)
    /\ Pass(t, [IdleTask EXCEPT !.op = "initialize"])
    /\ UNCHANGED <<config, live>>
    /\ UNCHANGED <<subject, image>>

\* The names a caller asks for: those of the tools the providers report.
RequestedNames ==
    {ToolName(p, connector_tools(p)[i]) : <<p, i>> \in
        {pi \in ProviderNames \X (1..2) : pi[2] \in DOMAIN connector_tools(pi[1])}}

\* ExecuteStart without lines 244-245: the name is looked up at once,
\* whether or not the gateway is initialized.
ExecuteStart_NoAutoInitialize(t) ==
    /\ CanStart(t)
    /\ \E tool_name \in RequestedNames, parameters \in 1..MaxArg :
          Resolve(t, [IdleTask EXCEPT !.op = "execute",
                                      !.tool_name = tool_name,
                                      !.parameters = parameters],
                  tool_map, sessions)
    /\ UNCHANGED <<config, mcp_client, sessions, initialized,
                   tool_declarations, tool_map, live, subject, image>>

\* A call of execute_mcp_tool(tool_name, parameters) is issued.
ExecuteStart(t) ==
    /\ CanStart(t)
    /\ \E tool_name \in RequestedNames, parameters \in 1..MaxArg :
          LET frame == [IdleTask EXCEPT !.op = "execute",
                                        !.tool_name = tool_name,
                                        !.parameters = parameters]
          IN  IF ~initialized
              THEN Pass(t, frame)
              ELSE /\ Resolve(t, frame, tool_map, sessions)
                   /\ UNCHANGED <<mcp_client, sessions, initialized,
                                  tool_declarations, tool_map>>
    /\ UNCHANGED <<config, live>>
    /\ UNCHANGED <<subject, image>>

\* create_session answers: the handshake completed, or it raised.
CreateSessionReturns(t) ==
    /\ task[t].pc = "create_session"
    /\ \E ok \in BOOLEAN :
          LET frame == task[t]
              session == Session(frame.pending, config[frame.idx], t)
              successful_sessions ==
                  IF ok THEN Append(frame.successful_sessions, session)
                  ELSE frame.successful_sessions
          IN  /\ live' = IF ok THEN live \cup {session} ELSE live
              /\ ConnectFrom(t, frame, frame.idx + 1, successful_sessions,
                             mcp_client)
    /\ UNCHANGED <<config, mcp_client>>
    /\ UNCHANGED <<subject, image>>

\* The caller's wait_for gives up on initialize(): the call is cancelled
\* at its await (CancelledError is no Exception, so no handler runs).
InitializeCancelled(t) ==
    /\ task[t].pc = "create_session"
    /\ task[t].op = "initialize"
    /\ task' = [task EXCEPT ![t] = Finished(task[t], "cancelled")]
    /\ UNCHANGED <<config, mcp_client, sessions, initialized,
                   tool_declarations, tool_map, stderr, live, calls>>
    /\ UNCHANGED <<subject, image>>

\* CallToolReturns without the raise of line 308: a provider call that
\* raised is logged and answered with a normal result.
CallToolReturns_SwallowsFailure(t) ==
    /\ task[t].pc = "call_tool"
    /\ stderr' = task[t].original_stderr
    /\ \/ \E result \in CallResults :
             /\ task' = [task EXCEPT ![t] =
                           [Finished(task[t], "returned") EXCEPT
                               !.result = process_mcp_result(result)]]
             /\ calls' = Answered(t, "result")
       \/ /\ task' = [task EXCEPT ![t] =
                           [Finished(task[t], "returned") EXCEPT
                               !.result = Envelope(<<"error">>, TRUE, TRUE)]]
          /\ calls' = Answered(t, "raised")
    /\ UNCHANGED <<config, mcp_client, sessions, initialized,
                   tool_declarations, tool_map, live>>
    /\ UNCHANGED <<subject, image>>

\* CallToolReturns marking the gateway as not ready when the provider call
\* raised, so that the next call would connect again.
CallToolReturns_ResetsOnFailure(t) ==
    /\ task[t].pc = "call_tool"
    /\ stderr' = task[t].original_stderr
    /\ \/ \E result \in CallResults :
             /\ task' = [task EXCEPT ![t] =
                           [Finished(task[t], "returned") EXCEPT
                               !.result = process_mcp_result(result)]]
             /\ calls' = Answered(t, "result")
             /\ UNCHANGED initialized
       \/ /\ task' = [task EXCEPT ![t] = Finished(task[t], "raised")]
          /\ calls' = Answered(t, "raised")
          /\ initialized' = FALSE
    /\ UNCHANGED <<config, mcp_client, sessions, tool_declarations, tool_map,
                   live, subject, image>>

\* call_tool answers with a result, or raises (lines 298-308); stderr is
\* put back first.  An exception of call_tool is logged and raised again,
\* as it is, to the caller: that is the outcome "raised".
CallToolReturns(t) ==
    /\ task[t].pc = "call_tool"
    /\ stderr' = task[t].original_stderr
    /\ \/ \E result \in CallResults :
             /\ task' = [task EXCEPT ![t] =
                           [Finished(task[t], "returned") EXCEPT
                               !.result = process_mcp_result(result)]]
             /\ calls' = Answered(t, "result")
       \/ /\ task' = [task EXCEPT ![t] = Finished(task[t], "raised")]
          /\ calls' = Answered(t, "raised")
    /\ UNCHANGED <<config, mcp_client, sessions, initialized,
                   tool_declarations, tool_map, live>>
    /\ UNCHANGED <<subject, image>>

\* ---------------------------------------------------------------- cleanup
\* Lines 342-346, and the return.
ClearReferences(t, frame) ==
    /\ sessions' = <<>>
    /\ mcp_client' = None
    /\ tool_declarations' = <<>>
    /\ tool_map' = <<>>
    /\ task' = [task EXCEPT ![t] = Finished(frame, "returned")]

\* CloseFrom without the check of line 332: close_all_sessions is awaited
\* whether or not there is a client.
CloseFrom_NoClientCheck(t, frame) ==
    /\ task' = [task EXCEPT ![t] =
                   [frame EXCEPT !.pc = "close_all_sessions",
                                 !.pending = mcp_client]]
    /\ UNCHANGED <<mcp_client, sessions, tool_declarations, tool_map>>

\* Lines 332-335: with a client, suspend on its close_all_sessions.
CloseFrom(t, frame) ==
    IF mcp_client # None
    THEN /\ task' = [task EXCEPT ![t] =
                        [frame EXCEPT !.pc = "close_all_sessions",
                                      !.pending = mcp_client]]
         /\ UNCHANGED <<mcp_client, sessions, tool_declarations, tool_map>>
    ELSE ClearReferences(t, frame)

\* A call of cleanup() is issued (lines 311-323).
CleanupStart(t) ==
    /\ CanStart(t)
    /\ initialized' = FALSE
    /\ LET frame == [IdleTask EXCEPT !.op = "cleanup", !.snapshot = sessions]
       IN  IF sessions # <<>>
           THEN /\ task' = [task EXCEPT ![t] =
                               [frame EXCEPT !.pc = "disconnect", !.idx = 1]]
                /\ UNCHANGED <<mcp_client, sessions, tool_declarations, tool_map>>
           ELSE CloseFrom(t, frame)
    /\ UNCHANGED <<config, stderr, live, calls>>
    /\ UNCHANGED <<subject, image>>

\* A wait that is not bounded by its timeout: it may last past it.
Durations_Unbounded(timeout) == {0, timeout + 1}

\* How long a wait_for(..., timeout) lasts: it answers at once, or it lasts
\* to the timeout.
Durations(timeout) == {0, timeout}

\* How a wait_for(..., timeout) ends after d seconds: at the timeout with
\* TimeoutError, before it with the operation's answer or its exception.
Endings(d, timeout) == IF d >= timeout THEN {"timeout"} ELSE {"closed", "error"}

\* AfterDisconnect without the handlers of lines 327-330: a disconnect that
\* times out or raises ends cleanup there, through the outer handler.
AfterDisconnect_StopsOnFailure(t, frame, how) ==
    IF how # "closed"
    THEN /\ task' = [task EXCEPT ![t] = Finished(frame, "returned")]
         /\ UNCHANGED <<mcp_client, sessions, tool_declarations, tool_map>>
    ELSE IF frame.idx < Len(frame.snapshot)
    THEN /\ task' = [task EXCEPT ![t] = [frame EXCEPT !.idx = @ + 1]]
         /\ UNCHANGED <<mcp_client, sessions, tool_declarations, tool_map>>
    ELSE IF mcp_client # None
    THEN /\ task' = [task EXCEPT ![t] =
                        [frame EXCEPT !.pc = "close_all_sessions",
                                      !.pending = mcp_client]]
         /\ UNCHANGED <<mcp_client, sessions, tool_declarations, tool_map>>
    ELSE /\ sessions' = <<>>
         /\ mcp_client' = None
         /\ tool_declarations' = <<>>
         /\ tool_map' = <<>>
         /\ task' = [task EXCEPT ![t] = Finished(frame, "returned")]

\* Lines 326-331: however the disconnect ended (closed, TimeoutError, any
\* other exception), the loop goes on to the next session, and after the
\* last one to the client.
AfterDisconnect(t, frame, how) ==
    IF frame.idx < Len(frame.snapshot)
    THEN /\ task' = [task EXCEPT ![t] = [frame EXCEPT !.idx = @ + 1]]
         /\ UNCHANGED <<mcp_client, sessions, tool_declarations, tool_map>>
    ELSE CloseFrom(t, frame)

\* wait_for(session.disconnect(), 2.0) ends (lines 323-330).
DisconnectReturns(t) ==
    /\ task[t].pc = "disconnect"
    /\ \E d \in Durations(SessionTimeout) :
       \E how \in Endings(d, SessionTimeout) :
          LET session == task[t].snapshot[task[t].idx]
              frame == [task[t] EXCEPT
                          !.failed = @ \/ how # "closed",
                          !.elapsed = @ + d]
          IN  /\ live' = IF how = "closed" THEN live \ {session} ELSE live
              /\ AfterDisconnect(t, frame, how)
    /\ UNCHANGED <<config, initialized, stderr, calls>>
    /\ UNCHANGED <<subject, image>>

\* wait_for(self.mcp_client.close_all_sessions(), 3.0) ends (lines 335-346).
CloseReturns(t) ==
    /\ task[t].pc = "close_all_sessions"
    /\ \E d \in Durations(CloseTimeout) :
       \E how \in Endings(d, CloseTimeout) :
          /\ live' = IF how = "closed"
                     THEN {s \in live : s.client # task[t].pending}
                     ELSE live
          /\ ClearReferences(t, [task[t] EXCEPT !.failed = @ \/ how # "closed",
                                                !.elapsed = @ + d])
    /\ UNCHANGED <<config, initialized, stderr, calls>>
    /\ UNCHANGED <<subject, image>>

\* The timeout of the wait cleanup() is suspended in.
PendingTimeout(frame) ==
    IF frame.pc = "disconnect" THEN SessionTimeout ELSE CloseTimeout

\* AudioLoop.run gives cleanup 3 seconds: when the wait it is suspended in
\* may last to that moment, the caller's wait_for cancels cleanup there.
CleanupCancelled(t) ==
    /\ task[t].pc \in {"disconnect", "close_all_sessions"}
    /\ task[t].elapsed + PendingTimeout(task[t]) >= CallerCleanupTimeout
    /\ task' = [task EXCEPT ![t] =
                   [Finished(task[t], "cancelled") EXCEPT
                       !.elapsed = CallerCleanupTimeout]]
    /\ UNCHANGED <<config, mcp_client, sessions, initialized,
                   tool_declarations, tool_map, stderr, live, calls>>
    /\ UNCHANGED <<subject, image>>

\* ------------------------------------------------------- specification
CleanupStep(t) == DisconnectReturns(t) \/ CloseReturns(t)

Next ==
    \E t \in Tasks :
        \/ InitializeStart(t)
        \/ ExecuteStart(t)
        \/ CleanupStart(t)
        \/ CreateSessionReturns(t)
        \/ InitializeCancelled(t)
        \/ CallToolReturns(t)
        \/ DisconnectReturns(t)
        \/ CloseReturns(t)
        \/ CleanupCancelled(t)

Spec == Init /\ [][Next]_vars

\* Every asyncio.wait_for in cleanup ends by its timeout, so a suspended
\* cleanup is always resumed.
FairSpec == Spec /\ \A t \in Tasks : WF_vars(CleanupStep(t))

\* And AudioLoop.run gives initialize() 10 seconds: a suspended
\* initialize() is cancelled when they are over.  Nothing in the gateway or
\* its callers bounds the handshake awaited by execute_mcp_tool's own
\* initialization or the call_tool it awaits, and a provider need not
\* answer: no fairness for those.
TimedSpec == FairSpec /\ \A t \in Tasks : WF_vars(InitializeCancelled(t))

\* ------------------------------------------------ the helpers on their own
\* The gateway as constructed with no provider configured, and no call
\* issued on it.
Constructed ==
    /\ config = <<>>
    /\ mcp_client = None
    /\ sessions = <<>>
    /\ initialized = FALSE
    /\ tool_declarations = <<>>
    /\ tool_map = <<>>
    /\ stderr = 0
    /\ task = [t \in Tasks |-> IdleTask]
    /\ live = {}
    /\ calls = {}

\* The JSON values nested up to depth n: a scalar; a dict over the keys
\* "type" (kept) and "$schema" (unsupported); a list of at most one item.
RECURSIVE Level(_)
Level(n) ==
    IF n = 0 THEN {Scalar("x")}
    ELSE LET below == Level(n - 1)
         IN  below
             \cup {Dict(f) : f \in UNION {[K -> below] : K \in SUBSET {"type", "$schema"}}}
             \cup {List(<<>>)} \cup {List(<<v>>) : v \in below}

\* The values of tool.inputSchema: the nested values; those inside a list
\* of an object schema (which puts a list directly inside a list, and a
\* dict inside such a list); and object schemas with two unsupported keys.
Schemas ==
    Level(MaxDepth)
    \cup {Dict("type" :> List(<<v>>)) : v \in Level(MaxDepth)}
    \cup {Dict(("$schema" :> Scalar("x")) @@ ("anyOf" :> v)) : v \in Level(1)}

SchemaInit ==
    /\ Constructed
    /\ subject \in Schemas
    /\ image = <<>>

\* cleaned_schema = self._clean_json_schema(...): first of the subject,
\* then of what the call before returned.
CleanSchema ==
    /\ Len(image) < 2
    /\ image' = Append(image, clean_json_schema(IF image = <<>> THEN subject
                                                ELSE image[Len(image)]))
    /\ UNCHANGED <<config, mcp_client, sessions, initialized, tool_declarations,
                   tool_map, stderr, task, live, calls, subject>>

SchemaSpec == SchemaInit /\ [][CleanSchema]_vars

\* The items result.content may hold: text items (with a str text, with a
\* text that is no str, without a text attribute), an image, a resource
\* without its payload, executable code, a code execution result, an item
\* of a type the gateway does not know and one without a type attribute.
ContentParts ==
    {TextPart(<<"ok">>),
     Part("text", NonStrAttr(<<"None">>), <<>>, FALSE, NoStrAttr, <<"TextContent">>),
     Part("text", NoStrAttr, <<>>, FALSE, NoStrAttr, <<"TextContent">>),
     Part("image", NoStrAttr, <<"aGk=">>, TRUE, NoStrAttr, <<"ImageContent">>),
     Part("resource", NoStrAttr, <<>>, FALSE, NoStrAttr, <<"EmbeddedResource">>),
     Part("executable_code", NoStrAttr, <<"print(42)">>, TRUE, StrAttr(<<"python">>),
          <<"ExecutableCode">>),
     ExecResultPart(<<"42">>),
     Part("audio", NoStrAttr, <<>>, FALSE, NoStrAttr, <<"AudioContent">>),
     Part("", NoStrAttr, <<>>, FALSE, NoStrAttr, <<"object">>)}

RECURSIVE PartLists(_)
PartLists(n) ==
    IF n = 0 THEN {<<>>}
    ELSE LET shorter == PartLists(n - 1)
         IN  shorter \cup {Append(l, part) : l \in shorter, part \in ContentParts}

\* The objects call_tool may return: a content list (an empty one is
\* falsy) or a content that cannot be iterated; with or without a text
\* attribute; with or without an isError attribute.
RawResults ==
    {Raw(content[1], content[2], content[3], text, isError, <<"CallToolResult">>) :
        content \in {<<l # <<>>, TRUE, l>> : l \in PartLists(MaxParts)}
                      \cup {<<TRUE, FALSE, <<>>>>},
        text \in {NoStrAttr, StrAttr(<<"hi">>), NonStrAttr(<<"None">>)},
        isError \in {NoBoolAttr, BoolAttr(FALSE), BoolAttr(TRUE)}}

ResultInit ==
    /\ Constructed
    /\ subject \in RawResults
    /\ image = <<>>

\* processed_result = self._process_mcp_result(result)
ProcessResult ==
    /\ image = <<>>
    /\ image' = <<process_mcp_result(subject)>>
    /\ UNCHANGED <<config, mcp_client, sessions, initialized, tool_declarations,
                   tool_map, stderr, task, live, calls, subject>>

ResultSpec == ResultInit /\ [][ProcessResult]_vars

\* One member of the "mcpServers" object as the file's text has it: its
\* name, and whether it has a "command" and an "args" member.
Entry(name, command, args) == [name |-> name, command |-> command, args |-> args]

RECURSIVE EntryLists(_)
EntryLists(n) ==
    IF n = 0 THEN {<<>>}
    ELSE LET shorter == EntryLists(n - 1)
         IN  shorter \cup
             {Append(l, Entry(name, command, args)) :
                 l \in shorter, name \in ProviderNames,
                 command \in BOOLEAN, args \in BOOLEAN}

\* The files at MCP_CONFIG_PATH: JSON text with an "mcpServers" object of
\* these members, in the order the text has them (a name may occur
\* twice); or a file that is no such text.
ConfigSources ==
    {[json |-> TRUE, members |-> l] : l \in EntryLists(MaxEntries)}
    \cup {[json |-> FALSE, members |-> <<>>]}

\* The dict json.load builds of an object's members: a name that occurs
\* again keeps its place and takes the later value.
RECURSIVE JsonObject(_)
JsonObject(members) ==
    IF members = <<>> THEN <<>>
    ELSE LET n == Len(members)
             before == JsonObject(SubSeq(members, 1, n - 1))
             same == {i \in DOMAIN before : before[i].name = members[n].name}
         IN  IF same = {} THEN Append(before, members[n])
             ELSE [i \in DOMAIN before |->
                     IF i \in same THEN members[n] ELSE before[i]]

\* json.load(f)["mcpServers"]: the mapping, whatever its entries hold; the
\* call raises only when the file is not JSON with that member.
load_mcp_server_config(source) ==
    IF source.json
    THEN [kind |-> "mapping", servers |-> JsonObject(source.members)]
    ELSE [kind |-> "raised", servers |-> <<>>]

ConfigInit ==
    /\ Constructed
    /\ subject \in ConfigSources
    /\ image = <<>>

\* self.config = load_mcp_server_config() in __init__: the mapping that
\* was loaded is the one initialize() will walk.
LoadConfig ==
    /\ image = <<>>
    /\ image' = <<load_mcp_server_config(subject)>>
    /\ config' = [i \in DOMAIN image'[1].servers |-> image'[1].servers[i].name]
    /\ UNCHANGED <<mcp_client, sessions, initialized, tool_declarations,
                   tool_map, stderr, task, live, calls, subject>>

ConfigSpec == ConfigInit /\ [][LoadConfig]_vars

\* ---------------------------------------------------------------- claims
Servers(ss) == {ss[i].server : i \in DOMAIN ss}

\* The (provider, tool) pairs the given providers report.
ReportedPairs(servers) ==
    UNION {{<<p, connector_tools(p)[i]>> : i \in DOMAIN connector_tools(p)} :
            p \in servers}

\* The declarations of the catalog that were built for the pair.
DeclarationsFor(pair) ==
    {i \in DOMAIN tool_declarations :
        /\ tool_declarations[i].name = ToolName(pair[1], pair[2])
        /\ tool_declarations[i].description = Description(pair[1], pair[2])}

\* The step in which execute_mcp_tool looks tool_name up: it was issued or
\* was waiting for its own initialization, and now awaits call_tool or has
\* ended.
Resolving(t) ==
    /\ task'[t].op = "execute"
    /\ task[t].pc \in {"idle", "create_session"}
    /\ task'[t].pc \in {"call_tool", "done"}

\* The step in which cleanup() returns to its caller.
CleanupReturning(t) ==
    /\ task[t].pc # "done"
    /\ task'[t].op = "cleanup"
    /\ task'[t].pc = "done"
    /\ task'[t].outcome = "returned"

ReferencesCleared ==
    /\ sessions = <<>>
    /\ mcp_client = None
    /\ tool_declarations = <<>>
    /\ tool_map = <<>>

\* C1: when initialize(), the only call issued so far, has returned,
\* get_tool_declarations() holds exactly one declaration for every tool
\* reported by a provider that connected, holds nothing else, and holds no
\* name twice.
C1_CatalogIsUnionWithUniqueNames ==
    (task[1].op = "initialize" /\ task[1].outcome = "returned"
        /\ task[2].pc = "idle")
    => LET pairs == ReportedPairs(Servers(sessions))
           decls == get_tool_declarations
       IN  /\ \A p \in pairs : Cardinality(DeclarationsFor(p)) = 1
           /\ \A i \in DOMAIN decls : \E p \in pairs : i \in DeclarationsFor(p)
           /\ \A i, j \in DOMAIN decls : i # j => decls[i].name # decls[j].name

\* C2: two distinct (provider, tool) pairs of the providers that hold a
\* session never get the same namespaced name.
C2_NamespacingInjective ==
    \A p, q \in ReportedPairs(Servers(sessions)) :
        p # q => ToolName(p[1], p[2]) # ToolName(q[1], q[2])

C4_FailedProviderIsUnavailable ==
    [][\A t \in Tasks : \A b \in ProviderNames :
          (/\ task[t].pc = "idle"
           /\ task'[t].op = "execute"
           /\ initialized
           /\ sessions # <<>>
           /\ b \in {config[i] : i \in DOMAIN config} \ Servers(sessions)
           /\ task'[t].tool_name \in
                 {ToolName(b, connector_tools(b)[i]) : i \in DOMAIN connector_tools(b)}
           /\ task'[t].tool_name \notin
                 {ToolName(p[1], p[2]) : p \in ReportedPairs(Servers(sessions))})
          => /\ task'[t].outcome = "provider_unavailable"
             /\ calls' = calls]_vars

\* C5: on a ready gateway, execute_mcp_tool with a catalog name derived from
\* provider p's tool makes exactly one call_tool, on p's session, with that
\* tool's local name and the parameters it was given; and a call that
\* returns hands back the normalized form of a provider result.
C5_RoutesToOwningProvider ==
    [][\A t \in Tasks :
          /\ \A p \in ReportedPairs(Servers(sessions)) :
                (/\ task[t].pc = "idle"
                 /\ task'[t].op = "execute"
                 /\ initialized
                 /\ task'[t].tool_name = ToolName(p[1], p[2])
                 /\ DeclarationsFor(p) # {})
                => /\ task'[t].pc = "call_tool"
                   /\ calls' = calls \cup
                         {CallOf(t, SessionOf(sessions, p[1]), p[2],
                                 task'[t].parameters)}
                   /\ Cardinality(calls') = Cardinality(calls) + 1
          /\ (task[t].pc = "call_tool" /\ task'[t].outcome = "returned")
                => \E r \in CallResults :
                      task'[t].result = process_mcp_result(r)]_vars

\* C6: an execute_mcp_tool issued after a cleanup() was issued neither
\* starts an initialization pass nor makes a call_tool.
C6_NoNewWorkAfterCleanup ==
    \A t \in Tasks :
        (task[t].op = "execute" /\ \E u \in Tasks : u < t /\ task[u].op = "cleanup")
        => /\ ~task[t].created
           /\ \A c \in calls : c.by # t

\* C7: when cleanup() returns, the session map, the client handle, the
\* catalog and the routing table are empty and the gateway is uninitialized.
C7_CleanupLeavesCleanState ==
    [][\A t \in Tasks :
          CleanupReturning(t) => (ReferencesCleared /\ ~initialized)']_vars

\* C8: a step of cleanup(), however it ended (closed, timed out, raised),
\* is followed by the next one: after a disconnect the next session's
\* disconnect, after the last disconnect the aggregate close when there is
\* a client, and after that the clearing of the references and a normal
\* return.
C8_CleanupStepsNeverHalt ==
    [][\A t \in Tasks :
          (/\ task[t].pc \in {"disconnect", "close_all_sessions"}
           /\ task'[t] # task[t]
           /\ task'[t].outcome # "cancelled")
          => IF task[t].pc = "disconnect" /\ task[t].idx < Len(task[t].snapshot)
             THEN /\ task'[t].pc = "disconnect"
                  /\ task'[t].idx = task[t].idx + 1
                  /\ task'[t].snapshot = task[t].snapshot
             ELSE IF task[t].pc = "disconnect" /\ mcp_client # None
             THEN /\ task'[t].pc = "close_all_sessions"
                  /\ task'[t].pending = mcp_client
             ELSE /\ task'[t].pc = "done"
                  /\ task'[t].outcome = "returned"
                  /\ task'[t].idx = Len(task[t].snapshot)
                  /\ ReferencesCleared']_vars

\* C8, its case: a cleanup() visited two sessions, a step of it failed and
\* left a session open, and it returned with the references cleared.
C8_Witness ==
    \E t \in Tasks :
        /\ task[t].op = "cleanup"
        /\ task[t].outcome = "returned"
        /\ task[t].failed
        /\ task[t].idx = 2
        /\ live # {}
        /\ ReferencesCleared

\* C9: a cleanup() has never waited longer than one session timeout for
\* each session it has to visit plus one close timeout, and it ends.
C9_CleanupEndsWithinTimeouts ==
    /\ [](\A t \in Tasks :
            task[t].op = "cleanup"
            => /\ task[t].idx <= Len(config)
               /\ task[t].elapsed <=
                     SessionTimeout
                        * (IF task[t].pc = "done" THEN task[t].idx
                           ELSE Len(task[t].snapshot))
                     + CloseTimeout)
    /\ \A t \in Tasks : (task[t].op = "cleanup") ~> (task[t].pc = "done")

\* C9, its case: a cleanup() returned after every one of its waits, for
\* one session and for the client, lasted to its timeout.
C9_Witness ==
    \E t \in Tasks :
        /\ task[t].op = "cleanup"
        /\ task[t].outcome = "returned"
        /\ task[t].idx = 1
        /\ task[t].elapsed = SessionTimeout + CloseTimeout

\* C10: as long as only cleanup() was called, every such call has returned
\* without a disconnect or a close and the gateway is as constructed; and
\* an initialize() that follows runs the pass of a new gateway: it creates
\* the client, and when it has returned the sessions are those it opened
\* and the catalog is built from them.
C10_CleanupBeforeInitialize ==
    /\ (\A u \in Tasks : task[u].op \in {"none", "cleanup"})
       => /\ \A u \in Tasks :
                task[u].op = "cleanup"
                => /\ task[u].pc = "done"
                   /\ task[u].outcome = "returned"
                   /\ task[u].idx = 0
                   /\ task[u].elapsed = 0
                   /\ ~task[u].failed
          /\ ReferencesCleared
          /\ ~initialized
          /\ live = {}
          /\ calls = {}
    /\ (task[1].op = "cleanup" /\ task[2].op = "initialize" /\ task[3].pc = "idle")
       => /\ task[2].created = (config # <<>>)
          /\ task[2].pc = "create_session"
                => (mcp_client = 2 /\ task[2].pending = 2 /\ ~initialized)
          /\ task[2].outcome = "returned"
                => /\ \A i \in DOMAIN sessions :
                         sessions[i].by = 2 /\ sessions[i].client = 2
                   /\ live = {sessions[i] : i \in DOMAIN sessions}
                   /\ initialized = (sessions # <<>>)
                   /\ sessions # <<>>
                         => get_tool_declarations = Declarations(PairsOf(sessions))

\* C10, its case: cleanup() ran on the new gateway, then initialize()
\* connected both providers.
C10_Witness ==
    /\ task[1].op = "cleanup"
    /\ task[2].op = "initialize"
    /\ task[2].outcome = "returned"
    /\ initialized
    /\ Len(sessions) = 2

\* The step in which a call of the given kind is issued.
Issued(t, op) ==
    /\ task[t].pc = "idle"
    /\ task'[t].op = op

\* The step in which the initialization pass of a call ends: the loop over
\* the providers is left and lines 79-115 run.
PassEnds(t) ==
    /\ task[t].pc = "create_session"
    /\ task'[t].pc # "create_session"
    /\ task'[t].outcome # "cancelled"

\* C11: a cleanup() issued when an earlier cleanup() has returned and the
\* gateway is as a cleanup leaves it returns at once without raising,
\* without a disconnect or a close, and changes nothing of the gateway
\* state (session map, client handle, catalog, routing table, flag).
C11_SecondCleanupChangesNothing ==
    [][\A t \in Tasks :
          (/\ Issued(t, "cleanup")
           /\ \E u \in Tasks :
                 task[u].op = "cleanup" /\ task[u].outcome = "returned"
           /\ ReferencesCleared)
          => /\ task'[t].pc = "done"
             /\ task'[t].outcome = "returned"
             /\ task'[t].idx = 0
             /\ task'[t].elapsed = 0
             /\ ~task'[t].failed
             /\ live' = live
             /\ gateway' = gateway]_vars

\* C12: an initialize() issued while another initialize() is suspended on a
\* provider handshake returns at once: it creates no client, awaits no
\* create_session and changes nothing of the gateway state; and when two
\* initialize() calls, the only calls issued, have both returned, no
\* declaration is in the catalog twice.
C12_SecondInitializeIsNoOp ==
    [][/\ \A t \in Tasks :
             (/\ Issued(t, "initialize")
              /\ \E u \in Tasks :
                    task[u].op = "initialize" /\ task[u].pc = "create_session")
             => /\ task'[t].pc = "done"
                /\ ~task'[t].created
                /\ gateway' = gateway
       /\ (/\ task[1].op = "initialize" /\ task[1].outcome = "returned"
           /\ task[2].op = "initialize" /\ task[2].outcome = "returned"
           /\ task[3].pc = "idle")
          => \A p \in ReportedPairs(ProviderNames) :
                Cardinality(DeclarationsFor(p)) <= 1]_vars

\* C13: an initialize() issued on a ready gateway returns at once without
\* creating a client or awaiting a create_session, and leaves the session
\* map, the client handle, the catalog, the routing table, the flag and
\* the open sessions as they are.
C13_ReadyInitializeIsNoOp ==
    [][\A t \in Tasks :
          (Issued(t, "initialize") /\ initialized)
          => /\ task'[t].pc = "done"
             /\ task'[t].outcome = "returned"
             /\ ~task'[t].created
             /\ gateway' = gateway
             /\ live' = live]_vars

\* C13, its case: with providers configured and sessions open, an
\* initialize() has returned without running a pass.
C13_Witness ==
    \E t \in Tasks :
        /\ task[t].op = "initialize"
        /\ task[t].outcome = "returned"
        /\ ~task[t].created
        /\ config # <<>>
        /\ initialized
        /\ sessions # <<>>

\* C14: a pass starts with the first configured provider; whether a
\* create_session succeeded or raised, the pass goes on to the next
\* configured provider until the last one, so every provider is attempted
\* once; and when the pass ends the session map holds exactly the sessions
\* of the attempts that succeeded.
C14_EveryProviderAttemptedOnce ==
    [][\A t \in Tasks :
          /\ (task[t].pc = "idle" /\ task'[t].created)
             => /\ task'[t].pc = "create_session"
                /\ task'[t].idx = 1
                /\ task'[t].successful_sessions = <<>>
          /\ (/\ task[t].pc = "create_session"
              /\ task'[t] # task[t]
              /\ task'[t].outcome # "cancelled")
             => LET i == task[t].idx
                    session == Session(task[t].pending, config[i], t)
                    successful_sessions ==
                        IF session \in live'
                        THEN Append(task[t].successful_sessions, session)
                        ELSE task[t].successful_sessions
                IN  IF i < Len(config)
                    THEN /\ task'[t].pc = "create_session"
                         /\ task'[t].idx = i + 1
                         /\ task'[t].successful_sessions = successful_sessions
                    ELSE /\ PassEnds(t)
                         /\ sessions' = successful_sessions]_vars

\* C15: when the pass of an initialize() ends with no session, the call
\* returns normally, the gateway is uninitialized and
\* get_tool_declarations() is empty.
C15_NoSessionLeavesEmptyCatalog ==
    [][\A t \in Tasks :
          (PassEnds(t) /\ task'[t].op = "initialize" /\ sessions' = <<>>)
          => /\ task'[t].outcome = "returned"
             /\ ~initialized'
             /\ get_tool_declarations' = <<>>]_vars

\* C18: when the provider call of an execute_mcp_tool has raised, the
\* execute_mcp_tool has ended by raising that exception to its own caller
\* and has handed back no result.
C18_FailedCallIsRaised ==
    \A c \in calls :
        c.answer = "raised"
        => /\ task[c.by].op = "execute"
           /\ task[c.by].pc = "done"
           /\ task[c.by].outcome = "raised"
           /\ task[c.by].result = NoResult

\* C18, its case: a provider call raised while another call's provider
\* call was answered with a result.
C18_Witness ==
    \E c, d \in calls :
        /\ c.answer = "raised"
        /\ d.answer = "result"
        /\ task[d.by].outcome = "returned"

\* C16: cleaning a cleaned schema gives the cleaned schema again.
C16_CleanIsIdempotent ==
    Len(image) = 2 => image[2] = image[1]

\* C16, its case: a schema was cleaned twice, and the first cleaning
\* removed a keyword from a dict inside a list.
C16_Witness ==
    /\ Len(image) = 2
    /\ subject.k = "dict"
    /\ \E key \in DOMAIN subject.f :
          /\ subject.f[key].k = "list"
          /\ subject.f[key].s # <<>>
          /\ subject.f[key].s[1].k = "dict"
          /\ "$schema" \in DOMAIN subject.f[key].s[1].f
          /\ "$schema" \notin DOMAIN image[1].f[key].s[1].f

\* C17: what execute_mcp_tool returns for a provider result is an envelope
\* with a textual content and an error flag, never the provider's object.
C17_AlwaysAnEnvelope ==
    image # <<>> => (image[1].kind = "envelope" /\ image[1].isStr)

\* C19: the error flag of the envelope is the provider's own: its isError,
\* or false when its response has none.
C19_ErrorFlagIsTheProviders ==
    (image # <<>> /\ image[1].kind = "envelope")
    => image[1].isError = GetIsError(subject)

\* The provider result whose content list is one code execution result
\* with the output "42".
IsExecResult42(result) ==
    /\ result.hascontent
    /\ result.iterable
    /\ result.parts = <<ExecResultPart(<<"42">>)>>

\* C20: the result whose content list is one code execution result "42"
\* is normalized to an envelope whose content is the block labelled
\* "Execution Result:" with "42" in it, and whose error flag is the
\* response's own: false for a response that is not flagged as an error.
C20_ExecutionResultIsLabelled ==
    (image # <<>> /\ IsExecResult42(subject))
    => /\ image[1].kind = "envelope"
       /\ image[1].isStr
       /\ image[1].content = <<"Execution Result:", "\n", "42">>
       /\ image[1].isError = GetIsError(subject)
       /\ ~GetIsError(subject) => ~image[1].isError

\* C20, its case: such a result, not flagged as an error, was normalized.
C20_Witness ==
    /\ image # <<>>
    /\ IsExecResult42(subject)
    /\ subject.isError = BoolAttr(FALSE)
    /\ ~image[1].isError

\* C21: every initialize() and every execute_mcp_tool() that was issued
\* ends (returns, raises or is cancelled by a timeout), whether or not the
\* providers answer.
C21_EveryCallEnds ==
    \A t \in Tasks :
        (task[t].op \in {"initialize", "execute"}) ~> (task[t].pc = "done")

\* A configuration text the spec calls malformed: an entry without
\* "command" or without "args", or a provider name that occurs twice.
Malformed(source) ==
    \/ \E i \in DOMAIN source.members :
          ~source.members[i].command \/ ~source.members[i].args
    \/ \E i, j \in DOMAIN source.members :
          i # j /\ source.members[i].name = source.members[j].name

\* C22: loading a malformed configuration text raises, and hands the
\* gateway no provider to initialize.
C22_MalformedConfigIsRefused ==
    (image # <<>> /\ Malformed(subject))
    => (image[1].kind = "raised" /\ config = <<>>)

\* C23: an execute_mcp_tool issued on a gateway that is not initialized
\* (and has providers configured) starts an initialization pass and looks
\* nothing up before the pass has ended; and when the pass ends with a
\* session of a provider that reports a tool of the requested name, the
\* call goes on to a call_tool of such a tool on such a session.
C23_FirstCallInitializesThenRoutes ==
    [][\A t \in Tasks :
          /\ (Issued(t, "execute") /\ ~initialized /\ config # <<>>)
             => /\ task'[t].created
                /\ task'[t].pc = "create_session"
                /\ task'[t].idx = 1
                /\ calls' = calls
          /\ (/\ task[t].op = "execute"
              /\ task'[t] # task[t]
              /\ task'[t].pc = "create_session")
             => calls' = calls
          /\ (/\ PassEnds(t)
              /\ task'[t].op = "execute"
              /\ \E p \in ReportedPairs(Servers(sessions')) :
                    ToolName(p[1], p[2]) = task'[t].tool_name)
             => /\ task'[t].pc = "call_tool"
                /\ \E c \in calls' \ calls :
                      /\ c.by = t
                      /\ \E i \in DOMAIN sessions' : sessions'[i] = c.session
                      /\ ToolName(c.session.server, c.tool) = task'[t].tool_name
                      /\ c.tool \in {connector_tools(c.session.server)[i] :
                                       i \in DOMAIN connector_tools(c.session.server)}
                      /\ c.parameters = task'[t].parameters]_vars

\* C23, its case: the first call on the gateway was an execute_mcp_tool;
\* it ran the pass itself and its call_tool was answered with a result.
C23_Witness ==
    /\ task[1].op = "execute"
    /\ task[1].created
    /\ task[1].outcome = "returned"
    /\ \E c \in calls : c.by = 1 /\ c.answer = "result"

\* C24: no two provider sessions (child processes) of the same provider
\* name are open at the same time.
C24_OneLiveSessionPerProvider ==
    \A s1, s2 \in live : s1.server = s2.server => s1 = s2

\* C27: when no call is in flight, a gateway whose flag is true has
\* sessions in its session map and its client handle set.
C27_ReadyMeansConnected ==
    (InFlight = {} /\ initialized) => (sessions # <<>> /\ mcp_client # None)

\* C28: when no call is in flight, sys.stderr is the stream that was
\* installed before the first call, not the WarningFilter of a call.
C28_StderrIsRestored ==
    InFlight = {} => stderr = 0

\* C29: when no call is in flight, the names of the catalog are the keys
\* of the routing table, and the provider of every routing entry has an
\* entry in the session map.
C29_CatalogMatchesRouting ==
    InFlight = {}
    => /\ {tool_declarations[i].name : i \in DOMAIN tool_declarations}
             = DOMAIN tool_map
       /\ \A n \in DOMAIN tool_map : tool_map[n][1] \in Servers(sessions)

\* The dicts of a JSON value at any depth, inside dicts and lists alike.
RECURSIVE DictsIn(_)
DictsIn(value) ==
    CASE value.k = "dict" ->
            {value} \cup UNION {DictsIn(value.f[key]) : key \in DOMAIN value.f}
      [] value.k = "list" ->
            UNION {DictsIn(value.s[i]) : i \in DOMAIN value.s}
      [] OTHER -> {}

\* C25: the cleaned form of an object schema has no unsupported keyword as
\* a key of any dict at any depth, and keeps every other key of the schema
\* with its scalar value.
C25_NoUnsupportedKeywordLeft ==
    (image # <<>> /\ subject.k = "dict")
    => /\ \A d \in DictsIn(image[1]) :
             DOMAIN d.f \cap (unsupported_properties \ {""}) = {}
       /\ \A key \in (DOMAIN subject.f) \ unsupported_properties :
             /\ key \in DOMAIN image[1].f
             /\ subject.f[key].k = "scalar" => image[1].f[key] = subject.f[key]

\* C26: for a result with a content list of n items that is normalized to
\* an envelope, every item has its rendered segment, and the content is
\* the segments in the order of the items, joined by newlines.
C26_OneSegmentPerItem ==
    (/\ image # <<>>
     /\ subject.hascontent
     /\ subject.iterable
     /\ image[1].kind = "envelope")
    => /\ \A i \in DOMAIN subject.parts : ProcessedItems(subject.parts[i]) # <<>>
       /\ image[1].content =
             Join([i \in DOMAIN subject.parts |->
                     ProcessedItems(subject.parts[i])[1].text])

\* C30: a step of an execute_mcp_tool that was issued on a ready gateway
\* (its lookup, with its outcome or its call_tool; the answer of its
\* call_tool, a result or an exception) leaves the session map, the client
\* handle, the catalog, the routing table and the flag as they are.
C30_ExecuteLeavesGatewayAlone ==
    [][\A t \in Tasks :
          (\/ Issued(t, "execute") /\ initialized
           \/ /\ task[t].op = "execute"
              /\ ~task[t].created
              /\ task[t].pc = "call_tool"
              /\ task'[t] # task[t])
          => gateway' = gateway]_vars

\* C30, its case: on a ready gateway one execute_mcp_tool has failed in
\* the provider call and another has failed with the unknown-tool error.
C30_Witness ==
    /\ initialized
    /\ \E t, u \in Tasks :
          /\ task[t].op = "execute" /\ ~task[t].created
          /\ task[t].outcome = "raised"
          /\ task[u].op = "execute" /\ ~task[u].created
          /\ task[u].outcome = "unknown_tool"

====
